---------------------------- MODULE Spec2Model ----------------------------
(***************************************************************************)
(* Model of the `ip` command of kubectl-helper.                            *)
(*                                                                         *)
(* src/cmd/ip.go holds two implementations of the command:                 *)
(*   "builder": runFunc / convertObjectToPodInfo / printColoredTable       *)
(*              (lines 1-175), a resource.Builder visit over unstructured  *)
(*              pod objects, filtered by SEARCH_PATTERN;                   *)
(*   "typed":   ipCmd.Run / getPodAndNodeInfo / printPodInfo               *)
(*              (lines 177-288), a typed clientset that lists the pods of  *)
(*              namespace "default" and the nodes and joins them.          *)
(* src/cmd/myexec.go holds Execute, which runs the command and turns a     *)
(* returned error into exit status 1.                                      *)
(*                                                                         *)
(* One behaviour of the model is one invocation of the command.  Strings   *)
(* that the code inspects character by character (pod names, the search    *)
(* pattern) are sequences of one-character strings; all other strings are  *)
(* TLA+ strings.                                                           *)
(***************************************************************************)
EXTENDS Naturals, Sequences, FiniteSets

VARIABLES
    impl,           \* which implementation of ipCmd is linked in
    args,           \* positional arguments of the invocation
    namespaceFlag,  \* value of -n/--namespace ("" when not given)
    clusterPods,    \* pod objects held by the control plane, all namespaces
    clusterNodes,   \* node objects held by the control plane
    pc,             \* position of the invocation
    calls,          \* control-plane list calls made so far, in order
    searchTerm,     \* runFunc: args[0]
    pods,           \* result of the pod listing
    nodes,          \* getPodAndNodeInfo: result of the node listing
    idx,            \* runFunc: position of the visit in pods
    nodeIPMap,      \* getPodAndNodeInfo: node name -> internal IP
    matchingPods,   \* runFunc: accumulated result
    podInfos,       \* getPodAndNodeInfo: result
    err,            \* error returned to the caller of the command body
    stdout,         \* what has been printed, in order
    exitCode        \* process exit status, read once pc = "done"

vars == << impl, args, namespaceFlag, clusterPods, clusterNodes, pc, calls,
           searchTerm, pods, nodes, idx, nodeIPMap, matchingPods, podInfos,
           err, stdout, exitCode >>

---------------------------------------------------------------------------
(* Bounds of the model *)

MaxPods == 2

MaxAddrs == 2

---------------------------------------------------------------------------
(* Values *)

\* a map key that is absent from an unstructured object (nil interface{})
NoValue == "<nil>"

NoErr == [msg |-> "", cause |-> ""]

\* sentinel scope of the builder: AllNamespaces(true)
AllNamespaces == "*"

Impls == {"builder", "typed"}

SeqsUpTo(S, n) == UNION {[1..k -> S] : k \in 0..n}

\* the search patterns tried: none, "", "a", "B", "aB"
ArgLists == { <<>>, << <<>> >>, << <<"a">> >>, << <<"B">> >>, << <<"a","B">> >> }

NamespaceFlags == {"", "default", "dev"}

\* Pod objects as the control plane serves them.  hasSpec / hasStatus say
\* whether the object carries a "spec" / "status" map; nodeName, podIP and
\* hostIP are NoValue when the key is absent (omitempty fields of a pod that
\* is not scheduled or has no address yet).
Pod(name, ns, hasSpec, hasStatus, nodeName, podIP, hostIP) ==
    [name |-> name, namespace |-> ns, hasSpec |-> hasSpec,
     hasStatus |-> hasStatus, nodeName |-> nodeName, podIP |-> podIP,
     hostIP |-> hostIP]

PodObjs ==
    { Pod(<<"A","b">>, "default", TRUE,  TRUE,  "n1",    "10.1.0.1", "10.0.0.1"),
      Pod(<<"b">>,     "default", TRUE,  TRUE,  "n1",    NoValue,    "10.0.0.1"),
      Pod(<<"A","b">>, "dev",     TRUE,  TRUE,  "n1",    "10.1.0.3", "10.0.0.1"),
      Pod(<<"b">>,     "dev",     TRUE,  TRUE,  NoValue, NoValue,    NoValue),
      Pod(<<"A","b">>, "default", FALSE, TRUE,  NoValue, "10.1.0.5", "10.0.0.1"),
      Pod(<<"b">>,     "default", TRUE,  FALSE, "n1",    NoValue,    NoValue) }

PodLists == SeqsUpTo(PodObjs, MaxPods)

Addrs == { [Type |-> "InternalIP", Address |-> "10.0.0.1"],
           [Type |-> "InternalIP", Address |-> "10.0.0.2"],
           [Type |-> "ExternalIP", Address |-> "1.2.3.4"] }

AddrLists == SeqsUpTo(Addrs, MaxAddrs)

Node(name, addrs) == [Name |-> name, Addresses |-> addrs]

\* node lists: n1 with any address list, optionally with n2 before or after
NodeLists ==
    LET n2 == Node("n2", << [Type |-> "InternalIP", Address |-> "10.0.0.2"] >>)
    IN  { <<>>, <<n2>> }
        \cup { <<Node("n1", a)>> : a \in AddrLists }
        \cup { <<Node("n1", a), n2>> : a \in AddrLists }
        \cup { <<n2, Node("n1", a)>> : a \in AddrLists }

---------------------------------------------------------------------------
(* Pure functions of the code *)

\* strings.ToLower over the alphabet of the model
ToLowerChar(c) == IF c = "A" THEN "a" ELSE IF c = "B" THEN "b" ELSE c

ToLower(s) == [i \in 1..Len(s) |-> ToLowerChar(s[i])]

\* strings.Contains
Contains(s, substr) ==
    \E i \in 1..(Len(s) + 1) :
        /\ i + Len(substr) - 1 <= Len(s)
        /\ SubSeq(s, i, i + Len(substr) - 1) = substr

\* the filter of runFunc
Matches(name, term) == Contains(ToLower(name), ToLower(term))

\* v, _ := m[key].(string)
StringOrEmpty(v) == IF v = NoValue THEN "" ELSE v

\* convertObjectToPodInfo: "err" when spec or status is not a map, "panic"
\* when an unchecked type assertion meets an absent key, else the PodInfo
convertObjectToPodInfo(obj) ==
    IF ~obj.hasSpec \/ ~obj.hasStatus
    THEN [kind |-> "err"]
    ELSE IF obj.nodeName = NoValue
    THEN [kind |-> "panic"]
    ELSE IF obj.hostIP = NoValue
    THEN [kind |-> "panic"]
    ELSE [kind |-> "ok",
          info |-> [Name |-> obj.name, Namespace |-> obj.namespace,
                    IP |-> StringOrEmpty(obj.podIP), NodeName |-> obj.nodeName,
                    NodeIP |-> obj.hostIP]]

\* the pods the control plane returns for a namespace scope
RECURSIVE InScope(_, _)
InScope(objs, scope) ==
    IF objs = <<>> THEN <<>>
    ELSE LET rest == InScope(Tail(objs), scope)
         IN  IF scope = AllNamespaces \/ Head(objs).namespace = scope
             THEN <<Head(objs)>> \o rest
             ELSE rest

\* the typed client's decoding of a pod object into corev1.Pod
TypedPod(obj) ==
    [Name |-> obj.name, Namespace |-> obj.namespace,
     PodIP |-> StringOrEmpty(obj.podIP), NodeName |-> StringOrEmpty(obj.nodeName)]

TypedPods(objs) == [i \in 1..Len(objs) |-> TypedPod(objs[i])]

Put(m, k, v) == [x \in (DOMAIN m) \cup {k} |-> IF x = k THEN v ELSE m[x]]

\* mutant of InternalAddr: the address type is not looked at
InternalAddr_AnyType(addrs, i) == IF i > Len(addrs) THEN 0 ELSE i

\* inner loop of the index construction: the position of the address the
\* loop breaks on, 0 when it runs to the end
RECURSIVE InternalAddr(_, _)
InternalAddr(addrs, i) ==
    IF i > Len(addrs) THEN 0
    ELSE IF addrs[i].Type = "InternalIP" THEN i
    ELSE InternalAddr(addrs, i + 1)

\* outer loop of the index construction
RECURSIVE BuildNodeIPMap(_, _, _)
BuildNodeIPMap(ns, i, m) ==
    IF i > Len(ns) THEN m
    ELSE LET k == InternalAddr(ns[i].Addresses, 1)
         IN  BuildNodeIPMap(ns, i + 1,
                 IF k = 0 THEN m
                 ELSE Put(m, ns[i].Name, ns[i].Addresses[k].Address))

\* one iteration of the join loop: <<>> when the pod is skipped
JoinPod(pod, m) ==
    IF pod.PodIP = "" THEN <<>>
    ELSE << [Name |-> pod.Name, IP |-> pod.PodIP, NodeName |-> pod.NodeName,
             NodeIP |-> IF pod.NodeName \in DOMAIN m THEN m[pod.NodeName] ELSE ""] >>

RECURSIVE JoinPods(_, _)
JoinPods(ps, m) ==
    IF ps = <<>> THEN <<>> ELSE JoinPod(Head(ps), m) \o JoinPods(Tail(ps), m)

\* error values
ErrUsage == [msg |-> "please provide a search pattern", cause |-> ""]

ErrRetrievePods(cause) == [msg |-> "failed to retrieve pods", cause |-> cause]

ErrHomeDir == [msg |-> "error getting home directory", cause |-> "home"]

ErrKubeconfig == [msg |-> "error building kubeconfig", cause |-> "kubeconfig"]

ErrClient == [msg |-> "error creating kubernetes client", cause |-> "client"]

\* mutant of ErrListPods: the message of the node listing pasted in
ErrListPods_Pasted == [msg |-> "error listing nodes", cause |-> "list"]

ErrListPods == [msg |-> "error listing pods", cause |-> "list"]

ErrListNodes == [msg |-> "error listing nodes", cause |-> "list"]

---------------------------------------------------------------------------
(* Initial state: the process has started, nothing has run *)

Init ==
    /\ impl \in Impls
    /\ args \in ArgLists
    /\ namespaceFlag \in (IF impl = "builder" THEN NamespaceFlags ELSE {""})
    /\ clusterPods \in PodLists
    /\ clusterNodes \in (IF impl = "typed" THEN NodeLists ELSE {<<>>})
    /\ pc = "start"
    /\ calls = <<>>
    /\ searchTerm = <<>>
    /\ pods = <<>>
    /\ nodes = <<>>
    /\ idx = 1
    /\ nodeIPMap = <<>>
    /\ matchingPods = <<>>
    /\ podInfos = <<>>
    /\ err = NoErr
    /\ stdout = <<>>
    /\ exitCode = 0

env == << impl, args, namespaceFlag, clusterPods, clusterNodes >>

---------------------------------------------------------------------------
(* The builder implementation: runFunc, run by Execute *)

\* runFunc, argument check and choice of the namespace scope
B_RunFunc ==
    /\ impl = "builder"
    /\ pc = "start"
    /\ IF Len(args) < 1
       THEN /\ err' = ErrUsage
            /\ pc' = "returned"
            /\ UNCHANGED searchTerm
       ELSE /\ searchTerm' = args[1]
            /\ pc' = "do"
            /\ UNCHANGED err
    /\ UNCHANGED << env, calls, pods, nodes, idx, nodeIPMap, matchingPods,
                    podInfos, stdout, exitCode >>

\* mutant of BuilderScope: the flag is not consulted
BuilderScope_FlagIgnored == AllNamespaces

BuilderScope == IF namespaceFlag # "" THEN namespaceFlag ELSE AllNamespaces

\* rb.Do(): the builder resolves the client configuration and lists the pods
\* of the scope; either step can fail, and Visit then returns that error
B_Do ==
    /\ impl = "builder"
    /\ pc = "do"
    /\ \E outcome \in {"ok", "config", "list"} :
        \/ /\ outcome = "config"
           /\ err' = ErrRetrievePods("config")
           /\ pc' = "returned"
           /\ UNCHANGED << calls, pods >>
        \/ /\ outcome = "list"
           /\ calls' = Append(calls, [op |-> "listPods", ok |-> FALSE])
           /\ err' = ErrRetrievePods("list")
           /\ pc' = "returned"
           /\ UNCHANGED pods
        \/ /\ outcome = "ok"
           /\ calls' = Append(calls, [op |-> "listPods", ok |-> TRUE])
           /\ pods' = InScope(clusterPods, BuilderScope)
           /\ pc' = "visit"
           /\ UNCHANGED err
    /\ UNCHANGED << env, searchTerm, nodes, idx, nodeIPMap, matchingPods,
                    podInfos, stdout, exitCode >>

\* the visitor function on the next object
B_Visit ==
    /\ impl = "builder"
    /\ pc = "visit"
    /\ idx <= Len(pods)
    /\ LET r == convertObjectToPodInfo(pods[idx])
       IN  \/ /\ r.kind = "panic"
              /\ pc' = "panic"
              /\ UNCHANGED << idx, matchingPods >>
           \/ /\ r.kind = "err"
              /\ idx' = idx + 1
              /\ UNCHANGED << pc, matchingPods >>
           \/ /\ r.kind = "ok"
              /\ idx' = idx + 1
              /\ matchingPods' = IF Matches(r.info.Name, searchTerm)
                                 THEN Append(matchingPods, r.info)
                                 ELSE matchingPods
              /\ UNCHANGED pc
    /\ UNCHANGED << env, calls, searchTerm, pods, nodes, nodeIPMap, podInfos,
                    err, stdout, exitCode >>

\* mutant of B_Report: the table is printed without the emptiness check
B_Report_NoEmptyCheck ==
    /\ impl = "builder"
    /\ pc = "visit"
    /\ idx > Len(pods)
    /\ stdout' = Append(stdout, [kind |-> "table", rows |-> matchingPods])
    /\ pc' = "returned"
    /\ UNCHANGED << env, calls, searchTerm, pods, nodes, idx, nodeIPMap,
                    matchingPods, podInfos, err, exitCode >>

\* runFunc after the visit: the no-matches message or the table
B_Report ==
    /\ impl = "builder"
    /\ pc = "visit"
    /\ idx > Len(pods)
    /\ stdout' = Append(stdout,
                    IF Len(matchingPods) = 0
                    THEN [kind |-> "nomatch", pattern |-> searchTerm]
                    ELSE [kind |-> "table", rows |-> matchingPods])
    /\ pc' = "returned"
    /\ UNCHANGED << env, calls, searchTerm, pods, nodes, idx, nodeIPMap,
                    matchingPods, podInfos, err, exitCode >>

\* Execute: a returned error is printed and the process exits with status 1
B_Execute ==
    /\ impl = "builder"
    /\ pc = "returned"
    /\ IF err # NoErr
       THEN /\ stdout' = Append(stdout, [kind |-> "error", err |-> err])
            /\ exitCode' = 1
       ELSE /\ exitCode' = 0
            /\ UNCHANGED stdout
    /\ pc' = "done"
    /\ UNCHANGED << env, calls, searchTerm, pods, nodes, idx, nodeIPMap,
                    matchingPods, podInfos, err >>

\* an unrecovered panic ends the process with status 2 and prints nothing
\* on standard output
B_Panic ==
    /\ impl = "builder"
    /\ pc = "panic"
    /\ exitCode' = 2
    /\ pc' = "done"
    /\ UNCHANGED << env, calls, searchTerm, pods, nodes, idx, nodeIPMap,
                    matchingPods, podInfos, err, stdout >>

---------------------------------------------------------------------------
(* The typed implementation: ipCmd.Run and getPodAndNodeInfo *)

T_Run ==
    /\ impl = "typed"
    /\ pc = "start"
    /\ stdout' = Append(stdout, [kind |-> "connecting"])
    /\ pc' = "config"
    /\ UNCHANGED << env, calls, searchTerm, pods, nodes, idx, nodeIPMap,
                    matchingPods, podInfos, err, exitCode >>

\* kubeconfig path, client configuration and clientset
T_Config ==
    /\ impl = "typed"
    /\ pc = "config"
    /\ \E outcome \in {"ok", "home", "kubeconfig", "client"} :
        \/ /\ outcome = "home"
           /\ err' = ErrHomeDir
           /\ pc' = "returned"
        \/ /\ outcome = "kubeconfig"
           /\ err' = ErrKubeconfig
           /\ pc' = "returned"
        \/ /\ outcome = "client"
           /\ err' = ErrClient
           /\ pc' = "returned"
        \/ /\ outcome = "ok"
           /\ pc' = "listPods"
           /\ UNCHANGED err
    /\ UNCHANGED << env, calls, searchTerm, pods, nodes, idx, nodeIPMap,
                    matchingPods, podInfos, stdout, exitCode >>

\* mutant of T_ListPods: the error of the listing is not returned
T_ListPods_ErrIgnored ==
    /\ impl = "typed"
    /\ pc = "listPods"
    /\ \E ok \in BOOLEAN :
        /\ calls' = Append(calls, [op |-> "listPods", ok |-> ok])
        /\ pods' = IF ok THEN TypedPods(InScope(clusterPods, "default")) ELSE <<>>
        /\ pc' = "listNodes"
    /\ UNCHANGED << env, searchTerm, nodes, idx, nodeIPMap, matchingPods,
                    podInfos, err, stdout, exitCode >>

\* clientset.CoreV1().Pods("default").List
T_ListPods ==
    /\ impl = "typed"
    /\ pc = "listPods"
    /\ \E ok \in BOOLEAN :
        /\ calls' = Append(calls, [op |-> "listPods", ok |-> ok])
        /\ IF ok
           THEN /\ pods' = TypedPods(InScope(clusterPods, "default"))
                /\ pc' = "listNodes"
                /\ UNCHANGED err
           ELSE /\ err' = ErrListPods
                /\ pc' = "returned"
                /\ UNCHANGED pods
    /\ UNCHANGED << env, searchTerm, nodes, idx, nodeIPMap, matchingPods,
                    podInfos, stdout, exitCode >>

\* clientset.CoreV1().Nodes().List
T_ListNodes ==
    /\ impl = "typed"
    /\ pc = "listNodes"
    /\ \E ok \in BOOLEAN :
        /\ calls' = Append(calls, [op |-> "listNodes", ok |-> ok])
        /\ IF ok
           THEN /\ nodes' = clusterNodes
                /\ pc' = "index"
                /\ UNCHANGED err
           ELSE /\ err' = ErrListNodes
                /\ pc' = "returned"
                /\ UNCHANGED nodes
    /\ UNCHANGED << env, searchTerm, pods, idx, nodeIPMap, matchingPods,
                    podInfos, stdout, exitCode >>

\* the loop that fills nodeIPMap
T_Index ==
    /\ impl = "typed"
    /\ pc = "index"
    /\ nodeIPMap' = BuildNodeIPMap(nodes, 1, <<>>)
    /\ pc' = "join"
    /\ UNCHANGED << env, calls, searchTerm, pods, nodes, idx, matchingPods,
                    podInfos, err, stdout, exitCode >>

\* the loop that fills podInfos, and the return
T_Join ==
    /\ impl = "typed"
    /\ pc = "join"
    /\ podInfos' = JoinPods(pods, nodeIPMap)
    /\ pc' = "returned"
    /\ UNCHANGED << env, calls, searchTerm, pods, nodes, idx, nodeIPMap,
                    matchingPods, err, stdout, exitCode >>

\* ipCmd.Run after getPodAndNodeInfo: the error and os.Exit(1), or printPodInfo
T_Report ==
    /\ impl = "typed"
    /\ pc = "returned"
    /\ IF err # NoErr
       THEN /\ stdout' = Append(stdout, [kind |-> "error", err |-> err])
            /\ exitCode' = 1
       ELSE /\ stdout' = Append(stdout, [kind |-> "table", rows |-> podInfos])
            /\ exitCode' = 0
    /\ pc' = "done"
    /\ UNCHANGED << env, calls, searchTerm, pods, nodes, idx, nodeIPMap,
                    matchingPods, podInfos, err >>

---------------------------------------------------------------------------

Next ==
    \/ B_RunFunc
    \/ B_Do
    \/ B_Visit
    \/ B_Report
    \/ B_Execute
    \/ B_Panic
    \/ T_Run
    \/ T_Config
    \/ T_ListPods
    \/ T_ListNodes
    \/ T_Index
    \/ T_Join
    \/ T_Report

Spec == Init /\ [][Next]_vars

---------------------------------------------------------------------------
(* Vocabulary of the properties *)

Done == pc = "done"

\* the process died of a panic
Panicked == pc = "panic" \/ (pc = "done" /\ exitCode = 2)

\* the command body ran to its end without returning an error
Succeeded == Done /\ err = NoErr /\ exitCode # 2

PodListOK == \E i \in DOMAIN calls : calls[i].op = "listPods" /\ calls[i].ok

PodListFailed == \E i \in DOMAIN calls : calls[i].op = "listPods" /\ ~calls[i].ok

SomeCallFailed == \E i \in DOMAIN calls : ~calls[i].ok

TablePrinted == \E i \in DOMAIN stdout : stdout[i].kind = "table"

\* the rows of the printed table, none when no table is printed
OutputRows ==
    IF TablePrinted
    THEN (CHOOSE e \in {stdout[i] : i \in DOMAIN stdout} : e.kind = "table").rows
    ELSE <<>>

RowSet == {OutputRows[i] : i \in DOMAIN OutputRows}

\* the name of an enumerated instance
NameOf(p) == IF impl = "builder" THEN p.name ELSE p.Name

\* the instances the enumeration returned
Enumerated == {pods[i] : i \in DOMAIN pods}

\* an enumerated instance without an assigned network address
NoAddress(p) == IF impl = "builder" THEN p.podIP = NoValue ELSE p.PodIP = ""

\* an enumerated instance that is not bound to a host
Unscheduled(p) == IF impl = "builder" THEN p.nodeName = NoValue ELSE p.NodeName = ""

\* an enumerated object without a spec or status section, or without a field
\* the conversion reads from them
Malformed(p) ==
    /\ impl = "builder"
    /\ (~p.hasSpec \/ ~p.hasStatus \/ p.nodeName = NoValue \/ p.hostIP = NoValue)

\* the invocation names a non-empty search pattern
PatternGiven == Len(args) >= 1 /\ args[1] # <<>>

\* the subsequence of the cluster's pods in namespace ns
InNamespace(ns) == SelectSeq(clusterPods, LAMBDA p : p.namespace = ns)

---------------------------------------------------------------------------
(* C1: an instance of the enumeration appears in the result list of the    *)
(* command if and only if its lower-cased name contains the lower-cased    *)
(* pattern.                                                                *)
C1_FilterIff ==
    (Done /\ err = NoErr /\ PatternGiven) =>
        \A p \in Enumerated :
            (\E r \in RowSet : r.Name = NameOf(p)) <=> Matches(NameOf(p), args[1])

(* C2: a missing or empty-string pattern is rejected before any call to    *)
(* the control plane: in such a run no listing call ever occurs.           *)
C2_EmptyPatternNoCalls ==
    (Len(args) = 0 \/ args[1] = <<>>) => calls = <<>>

C5_NoAddressListed ==
    (Done /\ err = NoErr /\ PatternGiven) =>
        \A p \in Enumerated :
            (NoAddress(p) /\ Matches(NameOf(p), args[1])) =>
                /\ exitCode = 0
                /\ \E r \in RowSet : r.Name = NameOf(p) /\ r.IP = ""

(* C6: the host IP of every output record is the address the host index    *)
(* holds for the instance's host name, and empty when the index has no     *)
(* entry; an instance without a host never aborts the query.               *)
C6_HostIPJoin ==
    /\ (impl = "typed" /\ pc \in {"returned", "done"} /\ err = NoErr) =>
            \A i \in DOMAIN podInfos :
                podInfos[i].NodeIP =
                    IF podInfos[i].NodeName \in DOMAIN nodeIPMap
                    THEN nodeIPMap[podInfos[i].NodeName]
                    ELSE ""
    /\ (\E p \in Enumerated : Unscheduled(p)) => ~Panicked

(* C7: a malformed instance record is skipped and never aborts the query:  *)
(* the run ends with the table or the no-matches message, and every other  *)
(* matching well-formed instance is reported.                              *)
C7_MalformedSkipped ==
    (impl = "builder" /\ PodListOK /\ \E p \in Enumerated : Malformed(p)) =>
        /\ ~Panicked
        /\ Done =>
            /\ exitCode = 0
            /\ \A q \in Enumerated :
                   (~Malformed(q) /\ Matches(q.name, searchTerm)) =>
                       \E r \in RowSet : r.Name = q.name /\ r.Namespace = q.namespace

C10_HostIndex ==
    (impl = "typed" /\ (pc = "join" \/ (pc \in {"returned", "done"} /\ err = NoErr))) =>
        /\ DOMAIN nodeIPMap \subseteq {nodes[i].Name : i \in DOMAIN nodes}
        /\ \A i \in DOMAIN nodes :
              LET a == nodes[i].Addresses
                  internal == {k \in DOMAIN a : a[k].Type = "InternalIP"}
              IN  IF internal = {}
                  THEN nodes[i].Name \notin DOMAIN nodeIPMap
                  ELSE /\ nodes[i].Name \in DOMAIN nodeIPMap
                       /\ \E k \in internal :
                              /\ \A j \in internal : k <= j
                              /\ nodeIPMap[nodes[i].Name] = a[k].Address

C10_Witness ==
    /\ impl = "typed"
    /\ pc = "join"
    /\ \E i \in DOMAIN nodes :
          /\ Len(nodes[i].Addresses) = 2
          /\ nodes[i].Addresses[1].Type = "ExternalIP"
          /\ nodes[i].Addresses[2].Type = "InternalIP"
          /\ nodeIPMap[nodes[i].Name] = nodes[i].Addresses[2].Address

====
